---- MODULE Spec2Model ----
(***************************************************************************)
(* arborist: a command wrapper that provisions a git worktree (bare        *)
(* repositories) or a git branch (normal repositories), runs the user      *)
(* command, and keeps or discards the isolation afterwards.                *)
(*                                                                         *)
(* The model is the state machine of main()/run() (src/src/main.rs), one   *)
(* action per subprocess invocation or directory change, over an abstract  *)
(* git repository (branches, commits, upstream configuration, working      *)
(* trees).  Paths and the text git prints are sequences of tokens, so the  *)
(* substring test of worktree_exists is computed, not assumed.             *)
(***************************************************************************)
EXTENDS Naturals, Integers, Sequences, FiniteSets, TLC

VARIABLES git, p, obs

vars == <<git, p, obs>>

(***************************************************************************)
(* Bounds                                                                  *)
(***************************************************************************)
NumColors == 2
MaxRuns == 2
MaxCommits == 2

(***************************************************************************)
(* Program constants and input sets                                        *)
(***************************************************************************)
COLORS ==
    << "red", "blue", "green", "yellow", "purple", "orange", "pink", "cyan",
       "teal", "magenta", "violet", "amber", "crimson", "navy", "indigo",
       "lime", "coral", "maroon", "turquoise", "slate", "lavender", "mint",
       "peach", "ruby", "sapphire", "emerald", "topaz" >>

Min(a, b) == IF a < b THEN a ELSE b

\* The entries of COLORS the model draws labels from.
Palette == { COLORS[i] : i \in 1..Min(NumColors, Len(COLORS)) }

\* Parent process ids an invocation may be started with.
Ppids == {27, 28}

\* What the user command's process can end with: an exit code, or a signal
\* (ExitStatus::code() is None for a process a signal ended).
CmdCodes == {0, 3}
CmdStatuses ==
    { [ended |-> "exit", code |-> c] : c \in CmdCodes }
        \cup { [ended |-> "signal", code |-> 0] }
NoCmdStatus == [ended |-> "none", code |-> 0]

\* How a subprocess invocation can go wrong for reasons outside the
\* repository's state: it cannot be spawned, or it exits nonzero.
Envs == {"ok", "spawn", "nonzero"}

\* What the user command can do to the working tree it runs in.
CmdEffects == {"none", "dirty", "commit"}

RepoKinds == {"none", "bare", "normal"}

BareRoot == << "/repo.git" >>
NormalRoot == << "/home/u/proj" >>
PlainDir == << "/home/u/plain" >>

RootOf(kind) ==
    CASE kind = "bare" -> BareRoot
      [] kind = "normal" -> NormalRoot
      [] OTHER -> PlainDir

NoPath == << >>

(***************************************************************************)
(* Text: a string is a sequence of tokens                                  *)
(***************************************************************************)
IsSubstring(s, t) ==
    /\ Len(s) <= Len(t)
    /\ \E i \in 0..(Len(t) - Len(s)) : SubSeq(t, i + 1, i + Len(s)) = s

\* PathBuf::join with a relative component
Join(path, name) == Append(path, name)

\* Path::parent
Parent(path) == IF Len(path) > 1 THEN SubSeq(path, 1, Len(path) - 1) ELSE path

IsRelative(path) == Len(path) > 0 /\ path[1] = "."

\* How the operating system resolves a path given to a process whose
\* working directory is dir.
Resolve(dir, path) ==
    IF IsRelative(path) THEN dir \o Tail(path) ELSE path

(***************************************************************************)
(* The repository                                                          *)
(***************************************************************************)
RECURSIVE Ancestors(_, _)
Ancestors(parent, c) ==
    IF c = 0 THEN {} ELSE {c} \cup Ancestors(parent, parent[c])

\* git rev-list --count a..b
RevListCount(g, a, b) ==
    Cardinality(Ancestors(g.parent, g.tip[b]) \ Ancestors(g.parent, g.tip[a]))

\* The directories that exist: the start directories and the working trees.
DirExists(g, dir) == dir = RootOf(g.kind) \/ dir \in DOMAIN g.trees

\* A git subprocess cannot start in a working directory that is gone.
GitCanRun(g, dir) == DirExists(g, dir)

\* The branch HEAD names, seen from dir (a bare repository's HEAD is main).
HeadBranch(g, dir) ==
    IF dir \in DOMAIN g.trees THEN g.trees[dir].branch ELSE "main"

CheckedOut(g, b) == \E t \in DOMAIN g.trees : g.trees[t].branch = b

\* admin_ignored: whether the repository's exclude rules hide git's own
\* bookkeeping files (HEAD, index, gitdir, ...) from git status.
InitGit(kind, admin_ignored) ==
    [ kind |-> kind,
      admin_ignored |-> admin_ignored,
      base_dir |-> FALSE,
      branches |-> IF kind = "none" THEN {} ELSE {"main"},
      tip |-> IF kind = "none" THEN << >> ELSE [b \in {"main"} |-> 1],
      upstream |-> IF kind = "none" THEN << >> ELSE [b \in {"main"} |-> "none"],
      parent |-> IF kind = "none" THEN << >> ELSE << 0 >>,
      trees |-> IF kind = "normal"
                  THEN [t \in {NormalRoot} |-> [branch |-> "main", dirty |-> FALSE]]
                  ELSE << >> ]

(***************************************************************************)
(* The process                                                             *)
(***************************************************************************)
NoGuard == [active |-> FALSE, original |-> NoPath]
NoRepo == [root |-> NoPath, current_branch |-> "", current_commit |-> 0,
           is_bare |-> FALSE]
NoStatus == [has_changes |-> FALSE, commits_ahead |-> 0]

IdleProc(dir) ==
    [ pc |-> "idle", cwd |-> dir, start |-> dir, ppid |-> 0,
      repo |-> NoRepo, color |-> "", worktree_path |-> NoPath,
      branch_name |-> "", guard |-> NoGuard, exit_code |-> -1,
      status |-> NoStatus, result |-> "none", error |-> "",
      process_exit |-> -1, stderr |-> "" ]

\* The step of run() that went wrong, and how: the subprocess could not be
\* spawned, it exited nonzero, or a directory operation failed.
NoFailure == [step |-> "none", kind |-> "none"]
Failure(step, env) ==
    [step |-> step, kind |-> IF env = "spawn" THEN "spawn" ELSE "nonzero"]

NoObs ==
    [ runs |-> 0, cmdRuns |-> 0, cmdCwd |-> NoPath, cmdStatus |-> NoCmdStatus,
      pre |-> InitGit("none", TRUE), post |-> InitGit("none", TRUE),
      existed |-> FALSE, listed |-> FALSE, issued |-> {},
      created |-> "none", createEnv |-> "none", removed |-> "none",
      entered |-> FALSE, failure |-> NoFailure, tolerated |-> "none",
      prev |-> [ppid |-> 0, color |-> ""] ]

Init ==
    /\ \E kind \in RepoKinds, admin_ignored \in BOOLEAN :
          /\ kind # "bare" => admin_ignored
          /\ git = InitGit(kind, admin_ignored)
    /\ p = IdleProc(RootOf(git.kind))
    /\ obs = NoObs

(***************************************************************************)
(* Leaving run(): locals are dropped, main() maps the result               *)
(***************************************************************************)
\* A guard that remembers the current directory without entering path.
DirectoryGuard_with_path_stays(pp, path) ==
    [pp EXCEPT !.guard = [active |-> TRUE, original |-> pp.cwd],
               !.pc = "bare_exec"]

\* DirectoryGuard::with_path: remember the current directory, enter path
DirectoryGuard_with_path(pp, path) ==
    [pp EXCEPT !.guard = [active |-> TRUE, original |-> pp.cwd],
               !.cwd = Resolve(pp.cwd, path),
               !.pc = "bare_exec"]

\* A guard that forgets to restore the directory.
DirectoryGuard_drop_forgets(pp, g) == [pp EXCEPT !.guard = NoGuard]

\* impl Drop for DirectoryGuard: set_current_dir(original); a failure is
\* only a warning.
DirectoryGuard_drop(pp, g) ==
    IF pp.guard.active
      THEN [pp EXCEPT !.cwd = IF DirExists(g, pp.guard.original)
                                THEN pp.guard.original ELSE @,
                      !.guard = NoGuard]
      ELSE pp

\* return Ok(exit_code), at the end of a match arm
ReturnOk(pp, g) ==
    [DirectoryGuard_drop(pp, g) EXCEPT !.pc = "returned", !.result = "Ok"]

\* the ? operator: an early return of Err(kind)
ReturnErr(pp, g, kind) ==
    [DirectoryGuard_drop(pp, g) EXCEPT !.pc = "returned", !.result = "Err",
                                       !.error = kind]

\* The error a failed subprocess invocation becomes.
ErrorOf(env) == IF env = "spawn" THEN "IoError" ELSE "GitOperationFailed"

\* main(): the process exit code for run()'s result
main_exit_code(result, code) == IF result = "Ok" THEN code ELSE 1

\* main(): what is printed to the error stream
main_stderr(result, error) == IF result = "Ok" THEN "" ELSE "Error: " \o error

Main ==
    /\ p.pc = "returned"
    /\ p' = [p EXCEPT !.pc = "exited",
                      !.process_exit = main_exit_code(p.result, p.exit_code),
                      !.stderr = main_stderr(p.result, p.error)]
    /\ UNCHANGED <<git, obs>>

(***************************************************************************)
(* Starting the tool                                                       *)
(***************************************************************************)
\* The directories the tool can be started in.
StartDirs(g) == {RootOf(g.kind)} \cup DOMAIN g.trees

Invoke ==
    /\ p.pc \in {"idle", "exited"}
    /\ obs.runs < MaxRuns
    /\ \E dir \in StartDirs(git), ppid \in Ppids :
          /\ p' = [IdleProc(dir) EXCEPT !.pc = "inspect", !.ppid = ppid]
          /\ obs' = [obs EXCEPT !.runs = @ + 1, !.cmdRuns = 0,
                                !.cmdCwd = NoPath, !.cmdStatus = NoCmdStatus,
                                !.pre = git, !.post = git, !.existed = FALSE,
                                !.listed = FALSE, !.issued = {},
                                !.created = "none", !.createEnv = "none",
                                !.removed = "none", !.entered = FALSE,
                                !.failure = NoFailure, !.tolerated = "none",
                                !.prev = [ppid |-> p.ppid, color |-> p.color]]
    /\ UNCHANGED git

(***************************************************************************)
(* Repository inspection (git.rs)                                          *)
(***************************************************************************)
\* is_git_repo: git rev-parse --is-inside-work-tree exits zero
is_git_repo(g, dir, env) == g.kind # "none" /\ GitCanRun(g, dir) /\ env = "ok"

\* is_bare_repository: asked of the common git directory
is_bare_repository(g) == g.kind = "bare"

\* git rev-parse --git-common-dir, as git prints it: relative to the
\* working directory when that is the git directory itself.
GitCommonDir(g, dir) == IF dir = RootOf(g.kind) THEN << "." >> ELSE RootOf(g.kind)

\* get_repo_root
get_repo_root(g, dir) ==
    IF is_bare_repository(g) THEN GitCommonDir(g, dir) ELSE RootOf(g.kind)

\* get_repo_info, when every query succeeds
get_repo_info(g, dir) ==
    [ root |-> get_repo_root(g, dir),
      current_branch |-> HeadBranch(g, dir),
      current_commit |-> g.tip[HeadBranch(g, dir)],
      is_bare |-> is_bare_repository(g) ]

\* run(): let repo_info = git::get_repo_info()?; match repo_info
\* probe is the fate of the is_git_repo probe, env that of the later queries.
Inspect ==
    /\ p.pc = "inspect"
    /\ \E probe \in Envs, env \in Envs :
          IF probe = "spawn"
            THEN /\ env = "ok"
                 /\ p' = ReturnErr(p, git, "IoError")
                 /\ obs' = [obs EXCEPT !.failure = Failure("is_git_repo", probe)]
            ELSE IF ~is_git_repo(git, p.cwd, probe)
              THEN /\ env = "ok"
                   /\ p' = [p EXCEPT !.pc = "direct"]
                   /\ obs' = [obs EXCEPT !.tolerated =
                                  IF probe = "nonzero" /\ git.kind # "none"
                                    THEN "repo_probe" ELSE @]
              ELSE IF env # "ok"
                THEN /\ p' = ReturnErr(p, git, ErrorOf(env))
                     /\ obs' = [obs EXCEPT !.failure = Failure("get_repo_info", env)]
                ELSE /\ p' = [p EXCEPT !.repo = get_repo_info(git, p.cwd),
                                       !.pc = IF get_repo_info(git, p.cwd).is_bare
                                                THEN "bare_select"
                                                ELSE "normal_select"]
                     /\ obs' = obs
    /\ UNCHANGED git

(***************************************************************************)
(* The user command                                                        *)
(***************************************************************************)
\* An execute_shell_command that reports success whatever the command did.
execute_shell_command_success(st) == 0

\* execute_shell_command: output.status.code().unwrap_or(1)
execute_shell_command(st) == IF st.ended = "exit" THEN st.code ELSE 1

\* What the user command does to the working tree at dir.
ApplyEffect(g, dir, eff) ==
    IF dir \notin DOMAIN g.trees THEN g
    ELSE IF eff = "dirty"
      THEN [g EXCEPT !.trees[dir].dirty = TRUE]
    ELSE IF eff = "commit" /\ Len(g.parent) < MaxCommits
      THEN [g EXCEPT !.parent = Append(@, g.tip[g.trees[dir].branch]),
                     !.tip[g.trees[dir].branch] = Len(g.parent) + 1]
    ELSE g

\* One call of execute_shell_command(&args.command)?, continuing at next.
Execute(next) ==
    \/ /\ p' = ReturnErr(p, git, "IoError")
       /\ obs' = [obs EXCEPT !.failure = Failure("command", "spawn")]
       /\ UNCHANGED git
    \/ \E st \in CmdStatuses, eff \in CmdEffects :
          /\ git' = ApplyEffect(git, p.cwd, eff)
          /\ git' # git \/ eff = "none"
          /\ obs' = [obs EXCEPT !.cmdRuns = @ + 1, !.cmdCwd = p.cwd,
                                !.cmdStatus = st, !.post = git']
          /\ p' = [p EXCEPT !.exit_code = execute_shell_command(st),
                            !.pc = next]

\* run(), None arm: execute_shell_command, return Ok(exit_code)
ExecuteDirect ==
    /\ p.pc = "direct"
    /\ Execute("direct_done")

ReturnDirect ==
    /\ p.pc = "direct_done"
    /\ p' = ReturnOk(p, git)
    /\ UNCHANGED <<git, obs>>

(***************************************************************************)
(* git commands that change the repository                                 *)
(***************************************************************************)
Restrict(f, S) == [x \in S |-> f[x]]

\* git worktree list: one line per working tree, the path first
WorktreeList(g) ==
    (IF g.kind = "bare" THEN { BareRoot \o << "(bare)" >> } ELSE {})
        \cup { t \o << "[" \o g.trees[t].branch \o "]" >> : t \in DOMAIN g.trees }

\* git keeps the bookkeeping of the worktree named n in
\* <git dir>/worktrees/n.  A worktree checked out at that very directory
\* shares it with those files, and git status lists them as untracked
\* unless they are excluded.
InAdminDir(g, tree) ==
    g.kind = "bare" /\ Parent(tree) = Join(RootOf(g.kind), "worktrees")

\* git worktree add -b branch path commit, run in dir
GitWorktreeAddOk(g, dir, path, branch) ==
    /\ GitCanRun(g, dir)
    /\ branch \notin g.branches
    /\ Resolve(dir, path) \notin DOMAIN g.trees

GitWorktreeAdd(g, dir, path, branch, commit) ==
    [g EXCEPT !.branches = @ \cup {branch},
              !.tip = [b \in g.branches \cup {branch} |->
                         IF b = branch THEN commit ELSE g.tip[b]],
              !.upstream = [b \in g.branches \cup {branch} |->
                              IF b = branch THEN "none" ELSE g.upstream[b]],
              !.trees = [t \in DOMAIN g.trees \cup {Resolve(dir, path)} |->
                           IF t = Resolve(dir, path)
                             THEN [branch |-> branch,
                                   dirty |-> InAdminDir(g, Resolve(dir, path))
                                               /\ ~g.admin_ignored]
                             ELSE g.trees[t]]]

\* git -C path branch --set-upstream-to upstream
GitSetUpstreamOk(g, tree, upstream) ==
    tree \in DOMAIN g.trees /\ upstream \in g.branches

GitSetUpstream(g, tree, upstream) ==
    [g EXCEPT !.upstream[g.trees[tree].branch] = upstream]

\* git worktree remove path --force, run in dir
GitWorktreeRemoveOk(g, dir, path) ==
    /\ GitCanRun(g, dir)
    /\ g.kind = "bare" \/ Resolve(dir, path) # NormalRoot
    /\ Resolve(dir, path) \in DOMAIN g.trees

\* git removes worktrees/ with the last worktree under it.
GitWorktreeRemove(g, dir, path) ==
    [g EXCEPT !.trees = Restrict(@, DOMAIN @ \ {Resolve(dir, path)}),
              !.base_dir = \E t \in DOMAIN g.trees \ {Resolve(dir, path)} :
                              Parent(t) = Parent(Resolve(dir, path))]

\* git branch -D branch, run in dir
GitBranchDeleteOk(g, dir, branch) ==
    /\ GitCanRun(g, dir)
    /\ branch \in g.branches
    /\ ~CheckedOut(g, branch)

\* A branch deletion that deletes nothing.
GitBranchDelete_keeps(g, branch) == g

GitBranchDelete(g, branch) ==
    [g EXCEPT !.branches = @ \ {branch},
              !.tip = Restrict(@, g.branches \ {branch}),
              !.upstream = Restrict(@, g.branches \ {branch})]

(***************************************************************************)
(* Workspace manager (git.rs)                                              *)
(***************************************************************************)
\* path_to_string: the path's own text, relative paths staying relative
path_to_string(path) == path

\* worktree_exists: the listing contains the path's text
worktree_exists(g, path) ==
    \E line \in WorktreeList(g) : IsSubstring(path_to_string(path), line)

\* ensure_worktree_base_dir: !parent.exists().  The directory worktrees/
\* exists from the first create_dir_all on, whatever became of the call
\* that made it, until git removes it with its last worktree.
BaseDirMissing(g, dir, path) ==
    /\ Parent(Resolve(dir, path)) # RootOf(g.kind)
    /\ ~g.base_dir

\* ensure_worktree_base_dir: fs::create_dir_all(parent)
EnsureBaseDir(g, dir, path) ==
    IF BaseDirMissing(g, dir, path) THEN [g EXCEPT !.base_dir = TRUE] ELSE g

\* Which step of create_worktree the environment makes fail.
CreateEnvs == {"ok", "mkdir", "list_spawn", "list", "add_spawn", "add",
               "upstream_spawn", "upstream"}

\* A create_worktree that treats the upstream as best effort: the worktree
\* is reported as ready although its branch tracks nothing.
create_worktree_lax_upstream(g, dir, path, branch, commit, upstream, env) ==
    IF /\ env \in {"upstream_spawn", "upstream"}
       /\ GitCanRun(g, dir)
       /\ ~worktree_exists(g, path)
       /\ GitWorktreeAddOk(g, dir, path, branch)
      THEN [git |-> GitWorktreeAdd(g, dir, path, branch, commit),
            result |-> "Ok", issued |-> {"worktree add", "set-upstream"}]
      ELSE [git |-> g, result |-> "GitOperationFailed", issued |-> {}]

\* create_worktree(path, branch, commit, Some(upstream)), run in dir:
\* the repository afterwards, the result, the mutating commands issued.
create_worktree(g, dir, path, branch, commit, upstream, env) ==
    IF BaseDirMissing(g, dir, path) /\ env = "mkdir"
      THEN [git |-> g, result |-> "IoError", issued |-> {}]
    ELSE LET made == EnsureBaseDir(g, dir, path) IN
      IF env = "list_spawn"
        THEN [git |-> made, result |-> "IoError", issued |-> {}]
      ELSE IF env = "list" \/ ~GitCanRun(made, dir)
        THEN [git |-> made, result |-> "GitOperationFailed", issued |-> {}]
      ELSE IF worktree_exists(made, path)
        THEN [git |-> made, result |-> "Ok", issued |-> {}]
      ELSE IF env = "add_spawn"
        THEN [git |-> made, result |-> "IoError", issued |-> {}]
      ELSE IF env = "add" \/ ~GitWorktreeAddOk(made, dir, path, branch)
        THEN [git |-> made, result |-> "GitOperationFailed",
              issued |-> {"worktree add"}]
      ELSE LET added == GitWorktreeAdd(made, dir, path, branch, commit) IN
        IF env = "upstream_spawn"
          THEN [git |-> added, result |-> "IoError",
                issued |-> {"worktree add"}]
        ELSE IF env = "upstream"
                  \/ ~GitSetUpstreamOk(added, Resolve(dir, path), upstream)
          THEN [git |-> added, result |-> "GitOperationFailed",
                issued |-> {"worktree add", "set-upstream"}]
        ELSE [git |-> GitSetUpstream(added, Resolve(dir, path), upstream),
              result |-> "Ok", issued |-> {"worktree add", "set-upstream"}]

\* The step of create_worktree that failed: the one the environment made
\* fail, or the last command issued when git itself refused.
CreateFailure(env, r) ==
    CASE env = "mkdir" -> [step |-> "mkdir", kind |-> "io"]
      [] env = "list_spawn" -> Failure("worktree list", "spawn")
      [] env = "list" -> Failure("worktree list", "nonzero")
      [] env = "add_spawn" -> Failure("worktree add", "spawn")
      [] env = "add" -> Failure("worktree add", "nonzero")
      [] env = "upstream_spawn" -> Failure("set-upstream", "spawn")
      [] env = "upstream" -> Failure("set-upstream", "nonzero")
      [] OTHER ->
           IF r.result = "Ok" THEN NoFailure
           ELSE IF r.issued = {} THEN Failure("worktree list", "nonzero")
           ELSE IF r.issued = {"worktree add"}
             THEN Failure("worktree add", "nonzero")
           ELSE Failure("set-upstream", "nonzero")

\* Which query of get_worktree_status the environment makes fail.
StatusEnvs ==
    {"ok", "status_spawn", "status", "probe_spawn", "probe", "count_spawn",
     "count"}

\* has_uncommitted_changes: git status --porcelain printed something
has_uncommitted_changes(g, dir) == g.trees[dir].dirty

\* The upstream probe of get_commits_ahead succeeds.
HasUpstream(g, dir) ==
    /\ g.upstream[HeadBranch(g, dir)] # "none"
    /\ g.upstream[HeadBranch(g, dir)] \in g.branches

\* get_commits_ahead: 0 when the probe fails for whatever reason
get_commits_ahead(g, dir, env) ==
    IF env \in {"probe_spawn", "probe"} \/ ~HasUpstream(g, dir)
      THEN 0
      ELSE RevListCount(g, g.upstream[HeadBranch(g, dir)], HeadBranch(g, dir))

\* A status query that insists on an upstream and fails without one.
get_worktree_status_requires_upstream(g, dir, env) ==
    IF \/ env # "ok" \/ ~GitCanRun(g, dir) \/ dir \notin DOMAIN g.trees
       \/ ~HasUpstream(g, dir)
      THEN [result |-> "GitOperationFailed", status |-> NoStatus]
      ELSE [result |-> "Ok",
            status |-> [has_changes |-> has_uncommitted_changes(g, dir),
                        commits_ahead |->
                          RevListCount(g, g.upstream[HeadBranch(g, dir)],
                                       HeadBranch(g, dir))]]

\* get_worktree_status, run in dir
get_worktree_status(g, dir, env) ==
    IF env = "status_spawn"
      THEN [result |-> "IoError", status |-> NoStatus]
    ELSE IF env = "status" \/ ~GitCanRun(g, dir) \/ dir \notin DOMAIN g.trees
      THEN [result |-> "GitOperationFailed", status |-> NoStatus]
    ELSE IF env = "count_spawn" /\ HasUpstream(g, dir)
      THEN [result |-> "IoError", status |-> NoStatus]
    ELSE IF env = "count" /\ HasUpstream(g, dir)
      THEN [result |-> "GitOperationFailed", status |-> NoStatus]
    ELSE [result |-> "Ok",
          status |-> [has_changes |-> has_uncommitted_changes(g, dir),
                      commits_ahead |-> get_commits_ahead(g, dir, env)]]

\* The query of get_worktree_status that could not be spawned or exited
\* nonzero without being the probe for an upstream.
StatusFailure(env, r) ==
    CASE env = "status_spawn" -> Failure("status", "spawn")
      [] env = "probe_spawn" -> Failure("upstream probe", "spawn")
      [] env = "count_spawn" -> Failure("rev-list", "spawn")
      [] env = "count" -> Failure("rev-list", "nonzero")
      [] OTHER -> IF r.result = "Ok" THEN NoFailure
                  ELSE Failure("status", "nonzero")

\* get_commits_ahead: Err(_) => Ok(0) on a probe that exited nonzero
StatusTolerated(g, dir, env, r) ==
    IF r.result = "Ok" /\ (env = "probe" \/ (env = "ok" /\ ~HasUpstream(g, dir)))
      THEN "upstream_probe"
      ELSE "none"

(***************************************************************************)
(* run(): what both repository arms share                                  *)
(***************************************************************************)
\* select_color: any entry of the palette, whatever the parent process is
select_color(ppid) == Palette

\* format!("arborist/{}", color)
BranchName(color) == "arborist/" \o color

\* repo.root.join("worktrees").join(format!("arborist-{}", color))
WorktreePath(root, color) ==
    Join(Join(root, "worktrees"), "arborist-" \o color)

\* A cleanup that looks at uncommitted changes only.
ShouldDiscard_ignores_commits(status) == ~status.has_changes

\* The else arm of the cleanup is taken: nothing changed, nothing ahead.
ShouldDiscard(status) == ~status.has_changes /\ ~(status.commits_ahead > 0)

\* let status = git::get_worktree_status()?, continuing at next
Status(next) ==
    /\ \E env \in StatusEnvs :
         LET r == get_worktree_status(git, p.cwd, env) IN
           /\ env = "ok" \/ r # get_worktree_status(git, p.cwd, "ok")
           /\ p' = IF r.result = "Ok"
                     THEN [p EXCEPT !.status = r.status, !.pc = next]
                     ELSE ReturnErr(p, git, r.result)
           /\ obs' = [obs EXCEPT !.failure = StatusFailure(env, r),
                                 !.tolerated = StatusTolerated(git, p.cwd, env, r)]
    /\ UNCHANGED git

(***************************************************************************)
(* run(), bare arm                                                         *)
(***************************************************************************)
BareSelect ==
    /\ p.pc = "bare_select"
    /\ \E c \in select_color(p.ppid) :
         /\ p' = [p EXCEPT !.color = c,
                           !.worktree_path = WorktreePath(p.repo.root, c),
                           !.branch_name = BranchName(c),
                           !.pc = "bare_check"]
    /\ UNCHANGED <<git, obs>>

\* if git::worktree_exists(&worktree_path)? { verbose!(..) }
BareCheck ==
    /\ p.pc = "bare_check"
    /\ \E env \in Envs :
         /\ p' = IF env = "ok"
                   THEN [p EXCEPT !.pc = "bare_create"]
                   ELSE ReturnErr(p, git, ErrorOf(env))
         /\ obs' = [obs EXCEPT
                      !.listed = worktree_exists(git, p.worktree_path),
                      !.failure = IF env = "ok" THEN @
                                  ELSE Failure("worktree list", env)]
    /\ UNCHANGED git

\* git::create_worktree(&worktree_path, &branch_name, &commit, Some(&branch))?
BareCreate ==
    /\ p.pc = "bare_create"
    /\ \E env \in CreateEnvs :
         LET r == create_worktree(git, p.cwd, p.worktree_path, p.branch_name,
                                  p.repo.current_commit,
                                  p.repo.current_branch, env)
             unhindered == create_worktree(git, p.cwd, p.worktree_path,
                                           p.branch_name,
                                           p.repo.current_commit,
                                           p.repo.current_branch, "ok") IN
           /\ env = "ok" \/ r # unhindered
           /\ git' = r.git
           /\ p' = IF r.result = "Ok"
                     THEN [p EXCEPT !.pc = "bare_enter"]
                     ELSE ReturnErr(p, git', r.result)
           /\ obs' = [obs EXCEPT
                        !.pre = git,
                        !.existed = Resolve(p.cwd, p.worktree_path)
                                        \in DOMAIN git.trees,
                        !.issued = r.issued,
                        !.created = r.result,
                        !.createEnv = env,
                        !.failure = CreateFailure(env, r)]

\* DirectoryGuard::with_path(&worktree_path)?
BareEnter ==
    /\ p.pc = "bare_enter"
    /\ \E env \in {"ok", "io"} :
         IF env = "ok" /\ DirExists(git, Resolve(p.cwd, p.worktree_path))
           THEN /\ p' = DirectoryGuard_with_path(p, p.worktree_path)
                /\ obs' = [obs EXCEPT !.entered = TRUE]
           ELSE /\ p' = ReturnErr(p, git, "IoError")
                /\ obs' = [obs EXCEPT !.failure =
                               [step |-> "with_path", kind |-> "io"]]
    /\ UNCHANGED git

BareExecute ==
    /\ p.pc = "bare_exec"
    /\ Execute("bare_status")

BareStatus ==
    /\ p.pc = "bare_status"
    /\ Status("bare_decide")

\* if has_changes {..} else if commits_ahead > 0 {..} else { drop(prev_path) ..
BareDecide ==
    /\ p.pc = "bare_decide"
    /\ p' = IF ShouldDiscard(p.status)
              THEN [DirectoryGuard_drop(p, git) EXCEPT !.pc = "bare_remove"]
              ELSE ReturnOk(p, git)
    /\ UNCHANGED <<git, obs>>

\* A remove_worktree_and_branch that goes on to the branch although the
\* worktree could not be removed.
BareRemove_ignores_failure ==
    /\ p.pc = "bare_remove"
    /\ \E env \in Envs :
         LET ok == env = "ok" /\ GitWorktreeRemoveOk(git, p.cwd, p.worktree_path)
         IN /\ git' = IF ok THEN GitWorktreeRemove(git, p.cwd, p.worktree_path)
                            ELSE git
            /\ p' = [p EXCEPT !.pc = "bare_delete"]
            /\ obs' = [obs EXCEPT
                         !.removed = IF ok THEN "worktree" ELSE @,
                         !.failure = IF ok THEN @
                                     ELSE Failure("worktree remove", env)]

\* remove_worktree_and_branch: remove_worktree(path)?
BareRemove ==
    /\ p.pc = "bare_remove"
    /\ \E env \in Envs :
         IF env = "ok" /\ GitWorktreeRemoveOk(git, p.cwd, p.worktree_path)
           THEN /\ git' = GitWorktreeRemove(git, p.cwd, p.worktree_path)
                /\ p' = [p EXCEPT !.pc = "bare_delete"]
                /\ obs' = [obs EXCEPT !.removed = "worktree"]
           ELSE /\ git' = git
                /\ p' = ReturnErr(p, git, ErrorOf(env))
                /\ obs' = [obs EXCEPT !.failure = Failure("worktree remove", env)]

\* remove_worktree_and_branch: delete_branch(branch)?; Ok(())
BareDelete ==
    /\ p.pc = "bare_delete"
    /\ \E env \in Envs :
         IF env = "ok" /\ GitBranchDeleteOk(git, p.cwd, p.branch_name)
           THEN /\ git' = GitBranchDelete(git, p.branch_name)
                /\ p' = ReturnOk(p, git')
                /\ obs' = [obs EXCEPT !.removed = "Ok"]
           ELSE /\ git' = git
                /\ p' = ReturnErr(p, git, ErrorOf(env))
                /\ obs' = [obs EXCEPT !.failure = Failure("branch -D", env)]

(***************************************************************************)
(* run(), normal arm.  git::branch_exists, git::checkout_branch and        *)
(* git::create_branch are called by run() and are not part of git.rs; they *)
(* are the branch query, checkout and create-and-checkout of the           *)
(* specification's subprocess interface.                                   *)
(***************************************************************************)
\* branch_exists(branch)
branch_exists(g, branch) == branch \in g.branches

\* checkout_branch(branch), in the working tree at dir
GitCheckoutOk(g, dir, branch) ==
    /\ GitCanRun(g, dir)
    /\ dir \in DOMAIN g.trees
    /\ branch \in g.branches
    /\ \A t \in DOMAIN g.trees \ {dir} : g.trees[t].branch # branch

checkout_branch(g, dir, branch) == [g EXCEPT !.trees[dir].branch = branch]

\* create_branch(branch, commit): a new branch at commit, checked out at dir
GitCreateBranchOk(g, dir, branch) ==
    /\ GitCanRun(g, dir)
    /\ dir \in DOMAIN g.trees
    /\ branch \notin g.branches

create_branch(g, dir, branch, commit) ==
    [g EXCEPT !.branches = @ \cup {branch},
              !.tip = [b \in g.branches \cup {branch} |->
                         IF b = branch THEN commit ELSE g.tip[b]],
              !.upstream = [b \in g.branches \cup {branch} |->
                              IF b = branch THEN "none" ELSE g.upstream[b]],
              !.trees[dir].branch = branch]

\* run(), normal arm, preparing the branch: query is the fate of
\* branch_exists, env that of the checkout or the create.
prepare_branch(g, dir, branch, commit, query, env) ==
    IF query # "ok"
      THEN [git |-> g, result |-> ErrorOf(query)]
    ELSE IF branch_exists(g, branch)
      THEN IF env = "ok" /\ GitCheckoutOk(g, dir, branch)
             THEN [git |-> checkout_branch(g, dir, branch), result |-> "Ok"]
             ELSE [git |-> g, result |-> ErrorOf(env)]
    ELSE IF env = "ok" /\ GitCreateBranchOk(g, dir, branch)
      THEN [git |-> create_branch(g, dir, branch, commit), result |-> "Ok"]
      ELSE [git |-> g, result |-> ErrorOf(env)]

NormalSelect ==
    /\ p.pc = "normal_select"
    /\ \E c \in select_color(p.ppid) :
         /\ p' = [p EXCEPT !.color = c, !.branch_name = BranchName(c),
                           !.pc = "normal_prepare"]
    /\ UNCHANGED <<git, obs>>

\* if git::branch_exists(..)? { checkout_branch(..)? } else { create_branch(..)? }
NormalPrepare ==
    /\ p.pc = "normal_prepare"
    /\ \E query \in Envs, env \in Envs :
         LET r == prepare_branch(git, p.cwd, p.branch_name,
                                 p.repo.current_commit, query, env) IN
           /\ query = "ok" \/ env = "ok"
           /\ git' = r.git
           /\ p' = IF r.result = "Ok"
                     THEN [p EXCEPT !.pc = "normal_exec"]
                     ELSE ReturnErr(p, git', r.result)
           /\ obs' = [obs EXCEPT
                        !.pre = git,
                        !.existed = branch_exists(git, p.branch_name),
                        !.created = r.result,
                        !.failure =
                          IF query # "ok" THEN Failure("branch_exists", query)
                          ELSE IF env = "ok" /\ r.result = "Ok" THEN NoFailure
                          ELSE IF branch_exists(git, p.branch_name)
                            THEN Failure("checkout", env)
                          ELSE Failure("create_branch", env)]

\* execute_shell_command(&args.command)? (stay in current directory)
NormalExecute ==
    /\ p.pc = "normal_exec"
    /\ Execute("normal_status")

NormalStatus ==
    /\ p.pc = "normal_status"
    /\ Status("normal_decide")

\* if has_changes {..} else if commits_ahead > 0 {..} else { checkout, delete }
NormalDecide ==
    /\ p.pc = "normal_decide"
    /\ p' = IF ShouldDiscard(p.status)
              THEN [p EXCEPT !.pc = "normal_checkout"]
              ELSE ReturnOk(p, git)
    /\ UNCHANGED <<git, obs>>

\* git::checkout_branch(&repo.current_branch)?
NormalCheckout ==
    /\ p.pc = "normal_checkout"
    /\ \E env \in Envs :
         IF env = "ok" /\ GitCheckoutOk(git, p.cwd, p.repo.current_branch)
           THEN /\ git' = checkout_branch(git, p.cwd, p.repo.current_branch)
                /\ p' = [p EXCEPT !.pc = "normal_delete"]
                /\ obs' = obs
           ELSE /\ git' = git
                /\ p' = ReturnErr(p, git, ErrorOf(env))
                /\ obs' = [obs EXCEPT !.failure = Failure("checkout back", env)]

\* git::delete_branch(&branch_name)?
NormalDelete ==
    /\ p.pc = "normal_delete"
    /\ \E env \in Envs :
         IF env = "ok" /\ GitBranchDeleteOk(git, p.cwd, p.branch_name)
           THEN /\ git' = GitBranchDelete(git, p.branch_name)
                /\ p' = ReturnOk(p, git')
                /\ obs' = [obs EXCEPT !.removed = "Ok"]
           ELSE /\ git' = git
                /\ p' = ReturnErr(p, git, ErrorOf(env))
                /\ obs' = [obs EXCEPT !.failure = Failure("branch -D", env)]

Next ==
    \/ NormalSelect
    \/ NormalPrepare
    \/ NormalExecute
    \/ NormalStatus
    \/ NormalDecide
    \/ NormalCheckout
    \/ NormalDelete
    \/ Invoke
    \/ Inspect
    \/ ExecuteDirect
    \/ ReturnDirect
    \/ BareSelect
    \/ BareCheck
    \/ BareCreate
    \/ BareEnter
    \/ BareExecute
    \/ BareStatus
    \/ BareDecide
    \/ BareRemove
    \/ BareDelete
    \/ Main

Spec == Init /\ [][Next]_vars

(***************************************************************************)
(* Properties                                                              *)
(***************************************************************************)
Finished == p.pc \in {"returned", "exited"}

\* The run went through a repository arm and prepared its isolation.
Isolated == p.branch_name # ""

\* The isolation worktree of the bare arm, as an absolute path.
IsoPath == Resolve(p.start, p.worktree_path)

\* C1: cleanup policy, both arms.  When run() returns Ok after the status
\* query: with no uncommitted changes and zero commits ahead the isolation
\* branch is gone (and, in the bare arm, the isolation worktree); with
\* uncommitted changes, or with commits ahead, the repository is exactly as
\* the user command left it.
C1_CleanupPolicy ==
    (Finished /\ p.result = "Ok" /\ Isolated) =>
        IF ~p.status.has_changes /\ p.status.commits_ahead = 0
          THEN /\ p.branch_name \notin git.branches
               /\ p.repo.is_bare => IsoPath \notin DOMAIN git.trees
          ELSE git = obs.post

C1_Witness ==
    /\ p.pc = "exited" /\ p.result = "Ok" /\ p.repo.is_bare
    /\ obs.cmdRuns = 1 /\ obs.removed = "Ok"
    /\ IsoPath \in DOMAIN obs.post.trees
    /\ IsoPath \notin DOMAIN git.trees

\* C2: outside a repository (get_repo_info returned None) the command runs
\* once, in the start directory, no branch or worktree appears, the working
\* directory never changes, and the process exits with the command's code.
C2_DirectRun ==
    (p.pc \in {"direct", "direct_done", "returned", "exited"}
        /\ p.repo = NoRepo /\ p.result # "Err") =>
        /\ p.cwd = p.start
        /\ ~p.guard.active
        /\ git.branches = obs.pre.branches
        /\ DOMAIN git.trees = DOMAIN obs.pre.trees
        /\ p.pc # "direct" =>
              /\ obs.cmdRuns = 1
              /\ obs.cmdCwd = p.start
              /\ obs.cmdStatus.ended = "exit" => p.exit_code = obs.cmdStatus.code
        /\ (p.pc = "exited" /\ obs.cmdStatus.ended = "exit") =>
              p.process_exit = obs.cmdStatus.code

C2_Witness ==
    /\ git.kind = "none" /\ p.pc = "exited" /\ p.result = "Ok"
    /\ obs.cmdRuns = 1 /\ obs.cmdStatus = [ended |-> "exit", code |-> 3]
    /\ p.process_exit = 3

\* C3: the process exit code.  On a path where no step of the run failed
\* the process exits with the user command's exit code and prints no error;
\* on a path where a step failed, before or after the command, it exits
\* with 1 and prints an "Error: ..." line.
C3_ExitCode ==
    p.pc = "exited" =>
        /\ obs.failure = NoFailure =>
              /\ p.result = "Ok"
              /\ obs.cmdRuns = 1
              /\ obs.cmdStatus.ended = "exit" =>
                    p.process_exit = obs.cmdStatus.code
              /\ p.stderr = ""
        /\ obs.failure # NoFailure =>
              /\ p.result = "Err"
              /\ p.process_exit = 1
              /\ p.stderr = "Error: " \o p.error
              /\ p.error \in {"IoError", "GitOperationFailed"}

\* C4: once the DirectoryGuard has entered the isolation path, the working
\* directory is the pre-run directory again wherever run() is left, and
\* already while the worktree and the branch are being removed.
C4_DirectoryRestored ==
    (obs.entered /\ p.pc \in {"bare_remove", "bare_delete", "returned", "exited"}) =>
        /\ p.cwd = p.start
        /\ ~p.guard.active

C4_Witness ==
    /\ obs.entered /\ p.pc = "exited" /\ p.result = "Err"
    /\ obs.removed = "worktree"
    /\ p.start # IsoPath /\ p.cwd = p.start

\* C5: at the end of a bare-arm run whose isolation was set up, the
\* worktree and its branch are both present or both gone.
C5_NeverPartiallyTornDown ==
    (p.pc = "exited" /\ p.repo.is_bare /\ obs.created = "Ok") =>
        (IsoPath \in DOMAIN git.trees) = (p.branch_name \in git.branches)

\* C6: in every repository the user command runs with the working directory
\* changed, under a DirectoryGuard, to the isolation workspace path.
C6_CommandRunsInIsolationPath ==
    (Isolated /\ p.pc \in {"bare_status", "normal_status"}) =>
        /\ p.guard.active
        /\ obs.cmdCwd = Resolve(p.guard.original, p.worktree_path)
        /\ obs.cmdCwd # RootOf(git.kind)

\* C7: in a bare repository R with label L a newly created worktree is at
\* R/arborist-L, on branch arborist/L tracking the branch current at start,
\* and a run that then finds nothing to keep leaves neither behind.
C7_BareWorktreeLocation ==
    (p.repo.is_bare /\ obs.created = "Ok" /\ obs.issued # {}) =>
        /\ p.pc = "bare_enter" =>
              /\ Join(BareRoot, "arborist-" \o p.color) \in DOMAIN git.trees
              /\ git.trees[Join(BareRoot, "arborist-" \o p.color)].branch
                    = "arborist/" \o p.color
              /\ git.upstream["arborist/" \o p.color] = p.repo.current_branch
        /\ (p.pc = "exited" /\ p.result = "Ok" /\ ShouldDiscard(p.status)) =>
              /\ Join(BareRoot, "arborist-" \o p.color) \notin DOMAIN git.trees
              /\ ("arborist/" \o p.color) \notin git.branches

\* C8: the label is COLORS[parent process id mod palette size], so two
\* invocations with the same parent process id select the same label.
C8_DeterministicLabel ==
    p.color # "" =>
        /\ p.color = COLORS[(p.ppid % Len(COLORS)) + 1]
        /\ (obs.prev.color # "" /\ obs.prev.ppid = p.ppid) =>
              p.color = obs.prev.color

\* C9: create_worktree on a path where a worktree already exists, every
\* subprocess doing its work, returns Ok, issues no mutating command and
\* leaves the repository as it was.
C9_CreateIdempotent ==
    (obs.existed /\ obs.createEnv = "ok" /\ p.repo.is_bare) =>
        /\ obs.created = "Ok"
        /\ obs.issued = {}
        /\ p.pc = "bare_enter" => git = obs.pre

\* C10: round trip.  A create_worktree that succeeded on a repository with
\* neither the worktree nor the branch, followed by a successful
\* remove_worktree_and_branch, leaves the sets of worktrees and of branches
\* as they were before the create.
C10_CreateRemoveRoundTrip ==
    (/\ obs.created = "Ok" /\ obs.removed = "Ok" /\ p.repo.is_bare
     /\ IsoPath \notin DOMAIN obs.pre.trees
     /\ p.branch_name \notin obs.pre.branches) =>
        /\ IsoPath \notin DOMAIN git.trees
        /\ p.branch_name \notin git.branches
        /\ DOMAIN git.trees = DOMAIN obs.pre.trees
        /\ git.branches = obs.pre.branches

C10_Witness ==
    /\ obs.created = "Ok" /\ obs.removed = "Ok" /\ p.repo.is_bare
    /\ obs.issued = {"worktree add", "set-upstream"}
    /\ IsoPath \notin DOMAIN obs.pre.trees
    /\ p.branch_name \notin obs.pre.branches
    /\ IsoPath \in DOMAIN obs.post.trees
    /\ p.pc = "exited"

\* The steps of run() that prepare the isolation.
SetupSteps ==
    {"mkdir", "worktree list", "worktree add", "set-upstream", "with_path",
     "branch_exists", "checkout", "create_branch"}

\* C11: setup failure is fatal.  When a step of the isolation setup fails
\* (creating the base directory, listing or adding the worktree, setting
\* the upstream, entering the worktree; in the normal arm the branch query,
\* checkout or creation), run() returns an error, the process exits with 1,
\* and the user command has not been executed; a user command that ran in
\* an arm ran after a successful setup.
C11_SetupFailureIsFatal ==
    /\ obs.failure.step \in SetupSteps =>
          /\ Finished
          /\ p.result = "Err"
          /\ obs.cmdRuns = 0
          /\ p.pc = "exited" => p.process_exit = 1
    /\ (Isolated /\ obs.cmdRuns > 0) => obs.created = "Ok"

C11_Witness ==
    /\ obs.failure = Failure("set-upstream", "nonzero")
    /\ IsoPath \in DOMAIN git.trees
    /\ IsoPath \notin DOMAIN obs.pre.trees
    /\ obs.cmdRuns = 0
    /\ p.pc = "exited"
    /\ p.result = "Err"

\* C12: no upstream.  In a work tree whose branch has no upstream, a status
\* query that the environment does not disturb succeeds with zero commits
\* ahead; the decision taken on it discards exactly when the tree is clean,
\* and on an Ok return the isolation branch is gone exactly when the tree
\* had no uncommitted changes.
C12_NoUpstreamIsZeroAhead ==
    /\ (/\ p.pc \in {"bare_status", "normal_status"}
        /\ p.cwd \in DOMAIN git.trees
        /\ GitCanRun(git, p.cwd)
        /\ ~HasUpstream(git, p.cwd)) =>
          LET r == get_worktree_status(git, p.cwd, "ok") IN
            /\ r.result = "Ok"
            /\ r.status.commits_ahead = 0
            /\ get_commits_ahead(git, p.cwd, "ok") = 0
    /\ (/\ p.pc \in {"bare_decide", "normal_decide"}
        /\ ~HasUpstream(git, p.cwd)) =>
          /\ p.status.commits_ahead = 0
          /\ ShouldDiscard(p.status) <=> ~git.trees[p.cwd].dirty
    /\ (/\ Finished /\ p.result = "Ok" /\ Isolated
        /\ ~HasUpstream(obs.post, obs.cmdCwd)) =>
          (p.branch_name \notin git.branches <=> ~p.status.has_changes)

C12_Witness ==
    /\ p.pc = "normal_decide"
    /\ ~HasUpstream(git, p.cwd)
    /\ git.tip[p.branch_name] # p.repo.current_commit
    /\ p.status = [has_changes |-> FALSE, commits_ahead |-> 0]
    /\ obs.failure = NoFailure

\* C13: order of the discard, bare arm.  The worktree is removed with the
\* guard dropped, the working directory back at the directory the run
\* started in and no longer the isolation path, and the branch still there;
\* the branch is deleted after the worktree is gone.
C13_DiscardOrder ==
    /\ p.pc = "bare_remove" =>
          /\ ~p.guard.active
          /\ p.cwd = p.start
          /\ p.cwd # IsoPath
          /\ p.branch_name \in git.branches
    /\ p.pc = "bare_delete" =>
          /\ ~p.guard.active
          /\ IsoPath \notin DOMAIN git.trees
          /\ p.branch_name \in git.branches

\* C14: remove_worktree_and_branch.  The branch is deleted only after the
\* worktree was removed; when the removal of the worktree fails the error is
\* returned at once, no deletion is attempted and the repository, its
\* branches included, is as the user command left it; the function has
\* returned Ok only when both the worktree and the branch are gone, and an
\* Ok return of a discarding run means it returned Ok.
C14_RemoveWorktreeThenBranch ==
    /\ obs.failure.step = "worktree remove" =>
          /\ Finished
          /\ p.result = "Err"
          /\ obs.removed = "none"
          /\ git = obs.post
          /\ p.branch_name \in git.branches
    /\ p.pc = "bare_delete" =>
          /\ obs.removed = "worktree"
          /\ IsoPath \notin DOMAIN git.trees
          /\ git.branches = obs.post.branches
    /\ (p.repo.is_bare /\ obs.removed = "Ok") =>
          /\ IsoPath \notin DOMAIN git.trees
          /\ p.branch_name \notin git.branches
          /\ obs.failure.step \notin {"worktree remove", "branch -D"}
    /\ (/\ p.repo.is_bare /\ Finished /\ p.result = "Ok"
        /\ Isolated /\ ShouldDiscard(p.status)) =>
          obs.removed = "Ok"

C14_Witness ==
    /\ obs.failure = Failure("worktree remove", "nonzero")
    /\ p.pc = "exited"
    /\ p.result = "Err"
    /\ ShouldDiscard(p.status)
    /\ IsoPath \in DOMAIN git.trees
    /\ p.branch_name \in git.branches

\* C15: failures are fatal and typed.  Once a step of the run has failed,
\* the run is over with an error and nothing further has been done: a git
\* invocation (or the user command) that could not be spawned gives an I/O
\* error, a git invocation that exited nonzero gives GitOperationFailed, a
\* failed directory operation gives an I/O error.  The nonzero exits of the
\* repository probe and of the upstream probe are not failures.
C15_FailuresAreFatalAndTyped ==
    /\ obs.failure # NoFailure =>
          /\ Finished
          /\ p.result = "Err"
          /\ p.pc = "exited" => p.process_exit = 1
    /\ obs.failure.kind \in {"spawn", "io"} => p.error = "IoError"
    /\ obs.failure.kind = "nonzero" => p.error = "GitOperationFailed"
    /\ obs.tolerated = "repo_probe" =>
          ~Isolated /\ obs.failure.step \in {"none", "command"}
    /\ obs.tolerated = "upstream_probe" =>
          /\ p.status.commits_ahead = 0
          /\ obs.failure.step \notin {"status", "upstream probe", "rev-list"}

\* C16: the directory the tool leaves behind.  When the process has exited,
\* its working directory is the directory it was started in and that
\* directory still exists: no run removes the worktree that holds the
\* directory it restores to.
C16_RestoredDirectoryExists ==
    p.pc = "exited" =>
        /\ p.cwd = p.start
        /\ DirExists(git, p.cwd)

\* C17: commits are never lost.  In both arms, when the isolation branch is
\* deleted, every commit it held after the user command is reachable from
\* the commit that was current when the run started.
C17_CommitsNeverLost ==
    (/\ Isolated
     /\ obs.cmdRuns > 0
     /\ p.branch_name \in obs.post.branches
     /\ p.branch_name \notin git.branches) =>
        Ancestors(obs.post.parent, obs.post.tip[p.branch_name])
            \subseteq Ancestors(obs.post.parent, p.repo.current_commit)

\* C18: discard in the normal arm.  When the isolation branch is about to
\* be deleted, HEAD is on the branch recorded at the start of the run and
\* that is not the branch being deleted; after the deletion HEAD is on the
\* branch recorded at the start and the isolation branch is gone.
C18_DiscardReturnsToStartBranch ==
    /\ p.pc = "normal_delete" =>
          /\ HeadBranch(git, p.cwd) = p.repo.current_branch
          /\ HeadBranch(git, p.cwd) # p.branch_name
    /\ (~p.repo.is_bare /\ Isolated /\ obs.removed = "Ok") =>
          /\ HeadBranch(git, p.cwd) = p.repo.current_branch
          /\ p.repo.current_branch \in git.branches
          /\ p.branch_name \notin git.branches

\* C19: when the status is taken, bare arm.  The status query runs after
\* the user command and before the guard is dropped, with the working
\* directory in the isolation worktree, and the status the decision is
\* taken on is that of the isolation worktree: its uncommitted changes, and
\* commits ahead that are zero or those of the isolation branch over its
\* upstream.
C19_StatusTakenInIsolationWorktree ==
    /\ p.pc \in {"bare_status", "bare_decide"} =>
          /\ obs.cmdRuns = 1
          /\ p.guard.active
          /\ p.cwd = IsoPath
          /\ obs.cmdCwd = IsoPath
          /\ git = obs.post
    /\ p.pc = "bare_decide" =>
          /\ p.status.has_changes = git.trees[IsoPath].dirty
          /\ HeadBranch(git, p.cwd) = p.branch_name
          /\ \/ p.status.commits_ahead = 0
             \/ /\ HasUpstream(git, IsoPath)
                /\ p.status.commits_ahead =
                     RevListCount(git, git.upstream[p.branch_name],
                                  p.branch_name)
    /\ (p.repo.is_bare /\ p.pc \in {"bare_remove", "bare_delete"}) =>
          /\ ~p.guard.active
          /\ ShouldDiscard(p.status)
          /\ ~obs.post.trees[IsoPath].dirty

C19_Witness ==
    /\ p.pc = "bare_decide"
    /\ p.cwd = IsoPath
    /\ p.start # IsoPath
    /\ p.start \in DOMAIN git.trees
    /\ git.trees[p.start].dirty # git.trees[IsoPath].dirty
    /\ p.status.has_changes = git.trees[IsoPath].dirty

====
